---- MODULE Spec2Model ----
(***************************************************************************)
(* SMART Health Links: link issuance (POST /api/shl), the public manifest  *)
(* endpoint (POST /shl/:id/manifest), revocation                           *)
(* (POST /api/shls/:id/revoke) and the owner's list and details views      *)
(* (GET /api/shls, GET /api/shls/:id) over the shls / audit_logs tables    *)
(* and the S3 object store; and the encryption service that seals the      *)
(* stored content.                                                         *)
(*                                                                         *)
(* Granularity.  The handlers are async functions on one Node event loop   *)
(* and the database is an in-process better-sqlite3 connection: every      *)
(* statement is atomic, and handlers interleave at their awaits.  One      *)
(* action of the model is one awaited call together with the synchronous   *)
(* code that follows it up to the next await.                              *)
(***************************************************************************)
EXTENDS Integers, Sequences, FiniteSets, TLC

\* ------------------------------------------------------------------ bounds
NumIssue == 1       \* issuance requests (POST /api/shl) in a behaviour
NumManifest == 2    \* manifest requests in a behaviour
NumAccess == 3      \* manifest requests in a behaviour of manifest requests alone
NumRevoke == 2      \* revoke requests in a behaviour
NumView == 2        \* list / details requests in a behaviour
MaxClock == 2       \* the clock runs 1 .. MaxClock
MaxDocs == 2        \* documents a patient has in the document source

\* Expiration window configuration (days): the defaults of config.ts.
SHL_EXPIRATION_DAYS_DEFAULT == 90
SHL_EXPIRATION_DAYS_MAX == 365

Issues == 1..NumIssue
Manifests == 1..NumManifest
Accessors == 1..NumAccess
Revokes == 1..NumRevoke
Views == 1..NumView

\* ------------------------------------------------------------ nullable values
Null == <<>>
Some(v) == <<v>>

\* --------------------------------------------------------------- identifiers
\* generateManifestId draws 32 random bytes: every issuance gets an id no
\* other issuance has.  The i-th issuance request draws the i-th id.
IdPool == <<"idA", "idB", "idC", "idD">>
generateManifestId(a) == IdPool[a]
\* generateShlKey draws 32 random bytes as well: the i-th issuance request
\* draws the i-th key (its base64url form).
KeyPool == <<"keyA", "keyB", "keyC", "keyD">>
generateShlKey(a) == KeyPool[a]
\* The shlink payload and the viewer URL that carries it in its fragment.
createShlPayload(manifestId, keyBase64Url, expiresAt) ==
  [ url |-> <<"manifest", manifestId>>, key |-> keyBase64Url, exp |-> expiresAt ]
createViewerUrl(shlPayload) == <<"viewer", shlPayload>>
\* A well-formed id that no issuance ever draws, and an id that is not even
\* base64url: the path parameter is an arbitrary string.
UnassignedId == "idZ"
MalformedId == "../not an id"
\* The ids manifest requests name: an issued link's, and the two that match
\* no row.
RequestIds == {IdPool[1], UnassignedId, MalformedId}

\* ------------------------------------------------------------------ sessions
\* Rows of the sessions table, written by the SMART launch callback, which
\* stores 'unknown' as the providerId of every session.  "sesA" is a live session of patient "patA"; "sesB" is
\* a live session in the context of another patient; "sesOld" is a session of
\* patient "patA" whose expiresAt has passed.
sessions ==
  [ sesA   |-> [patientId |-> "patA", providerId |-> "unknown", expiresAt |-> MaxClock + 1],
    sesB   |-> [patientId |-> "patB", providerId |-> "unknown", expiresAt |-> MaxClock + 1],
    sesOld |-> [patientId |-> "patA", providerId |-> "unknown", expiresAt |-> 0] ]
\* The session cookie of a request: absent, a session id, or an id of no row.
NoCookie == "(no cookie)"
Cookies == {NoCookie, "sesA", "sesB", "sesOld", "sesGone"}

\* ----------------------------------------------------------------- responses
NoResp == [code |-> 0, error |-> "", files |-> <<>>]
ErrorResp(c, msg) == [code |-> c, error |-> msg, files |-> <<>>]
ManifestResp(url) ==
  [code |-> 200, error |-> "",
   files |-> << [contentType |-> "application/fhir+json", location |-> url] >>]
OkResp(c) == [code |-> c, error |-> "", files |-> <<>>]

VARIABLES
  clock,      \* new Date()
  shls,       \* the shls table: id -> row
  auditLogs,  \* the audit_logs table, in insertion order
  s3,         \* the keys of the objects in the bucket
  iss,        \* issuance requests: handler position and locals
  man,        \* manifest requests: handler position and locals
  rev,        \* revoke requests: handler position and locals
  view,       \* list / details requests: handler position and locals
  crypto      \* a caller of the encryption service: its arguments and results

vars == <<clock, shls, auditLogs, s3, iss, man, rev, view, crypto>>

\* ------------------------------------------------------------------- storage
generateS3Key(manifestId, fileId) == <<"shls", manifestId, fileId>>
\* Mutant: the URL signed when the object was stored is handed out again.
generateSignedUrl_Cached(key) == <<"signed", key, 0>>
\* getSignedUrl(GetObject(key), expiresIn 3600): the URL names the object and
\* carries the time it was signed at.
generateSignedUrl(key) == <<"signed", key, clock>>
getBundleUrl(bundleS3Key) == generateSignedUrl(bundleS3Key)

\* ---------------------------------------------------------------- audit rows
AuditRow(id, type, provider, recipient, location, details) ==
  [ shlId |-> id, eventType |-> type, providerId |-> provider,
    accessorRecipient |-> recipient, accessorLocation |-> location,
    details |-> details ]

\* Mutant: the creation event's details record the link's key as well.
CreatedEvent_WithKey(id, providerId, documentCount, days) ==
  AuditRow(id, "SHL_CREATED", Some(providerId), Null, Null,
           Some([documentCount |-> documentCount, expirationDays |-> days,
                 key |-> generateShlKey(CHOOSE a \in DOMAIN IdPool : IdPool[a] = id)]))

CreatedEvent(id, providerId, documentCount, days) ==
  AuditRow(id, "SHL_CREATED", Some(providerId), Null, Null,
           Some([documentCount |-> documentCount, expirationDays |-> days]))

\* The delivery event of one channel ("phone" or "email"): details are
\* JSON.stringify({ phone, status }) or JSON.stringify({ email, status }).
DeliveryEvent(id, channel, contact, delivered, status) ==
  AuditRow(id, IF status = "sent" THEN delivered ELSE "SHL_DELIVERY_FAILED",
           Null, Null, Null, Some((channel :> contact) @@ [status |-> status]))

EventsOf(id, type) ==
  {k \in 1..Len(auditLogs) : auditLogs[k].shlId = id /\ auditLogs[k].eventType = type}

\* ====================================================================
\* POST /shl/:id/manifest                            (routes/manifest.ts)
\* ====================================================================
\* request.body.recipient
Recipients == {"", "Dr. Lee"}
\* x-forwarded-for / x-real-ip / socket address of the caller: a public
\* address, for which the lookup goes out to ip-api.com
ClientIps == {"203.0.113.7"}

ManIdle ==
  [ pc |-> "idle", id |-> "", recipient |-> "", clientIp |-> "",
    readStatus |-> "", shl |-> Null, now |-> Null, location |-> Null, notified |-> FALSE,
    resp |-> NoResp ]

\* A handler that has replied: its locals are dead.
ManDone(r, response) ==
  [ ManIdle EXCEPT !.pc = "done", !.id = r.id, !.notified = r.notified,
                   !.resp = response ]

\* getGeoLocation(ip): the outcomes of the lookup.  Private addresses are
\* answered locally; otherwise the ip-api.com fetch answers, or it fails or
\* answers non-ok and the result is null.
IsPrivateIp(ip) == ip = "127.0.0.1"
getGeoLocation(ip) ==
  IF IsPrivateIp(ip)
    THEN {Some("Local, Development, localhost")}
    ELSE {Some("City, Region, Country"), Null}

\* The columns of the row that the handler reads after its first await.
ShlSnapshot(row) ==
  Some([ accessCount |-> row.accessCount, bundleS3Key |-> row.bundleS3Key,
         patientPhone |-> row.patientPhone, patientEmail |-> row.patientEmail ])

\* The value written to access_count by step 6.
NextAccessCount(r) == r.shl[1].accessCount + 1

\* Mutant: the id's format is checked first and a malformed id is told apart.
NotFoundResp_Leaky(id) ==
  IF id = MalformedId THEN ErrorResp(400, "Invalid link id")
  ELSE ErrorResp(404, "Link not found")

\* Step 1: the reply when no row has the id.
NotFoundResp(id) == ErrorResp(404, "Link not found")

\* Mutant: the stored status decides, and 'expired' is not checked for.
IsExpired_ActiveOnly(row) == row.status = "active" /\ row.expiresAt < clock

\* Step 3: shl.expiresAt < now.
IsExpired(row) == row.expiresAt < clock

\* Steps 1-3: select the row, check status, check expiration; then step 4
\* reads the caller's address and calls getGeoLocation.  The body's recipient
\* and the caller's address are read only on the path that goes on.
ManifestSelect(m) ==
  /\ man[m].pc = "idle"
  /\ \A k \in Manifests : k < m => man[k].pc # "idle"
  /\ \E id \in RequestIds :
       LET r == [ManIdle EXCEPT !.id = id]
       IN  IF id \notin DOMAIN shls
             THEN man' = [man EXCEPT ![m] = ManDone(r, NotFoundResp(id))]
           ELSE IF shls[id].status = "revoked"
             THEN man' = [man EXCEPT ![m] =
                            ManDone(r, ErrorResp(410, "This link has been revoked"))]
           ELSE IF IsExpired(shls[id])
             THEN man' = [man EXCEPT ![m] =
                            [r EXCEPT !.pc = "expire", !.readStatus = shls[id].status]]
           ELSE \E recipient \in Recipients, ip \in ClientIps :
                  man' = [man EXCEPT ![m] =
                            [r EXCEPT !.pc = "geo", !.recipient = recipient,
                                      !.clientIp = ip, !.shl = ShlSnapshot(shls[id]),
                                      !.now = Some(clock)]]
  /\ UNCHANGED <<clock, shls, auditLogs, s3, iss, rev, view, crypto>>

\* Mutant: the expired reply without the write.
ManifestExpire_NoWrite(m) ==
  /\ man[m].pc = "expire"
  /\ man' = [man EXCEPT ![m] = ManDone(man[m], ErrorResp(410, "This link has expired"))]
  /\ UNCHANGED <<clock, shls, auditLogs, s3, iss, rev, view, crypto>>

\* Mutant: the refused request is counted and logged as an access.
ManifestExpire_CountsAccess(m) ==
  /\ man[m].pc = "expire"
  /\ shls' = [shls EXCEPT ![man[m].id].status = "expired",
                          ![man[m].id].accessCount = @ + 1,
                          ![man[m].id].lastAccessedAt = Some(clock)]
  /\ auditLogs' = Append(auditLogs,
       AuditRow(man[m].id, "SHL_ACCESSED", Null, Some("Anonymous"), Null, Null))
  /\ man' = [man EXCEPT ![m] = ManDone(man[m], ErrorResp(410, "This link has expired"))]
  /\ UNCHANGED <<clock, s3, iss, rev, view, crypto>>

\* Step 3, the lazy-expiry write: db.update(shls).set({status: 'expired'}).
ManifestExpire(m) ==
  /\ man[m].pc = "expire"
  /\ shls' = [shls EXCEPT ![man[m].id].status = "expired"]
  /\ man' = [man EXCEPT ![m] = ManDone(man[m], ErrorResp(410, "This link has expired"))]
  /\ UNCHANGED <<clock, auditLogs, s3, iss, rev, view, crypto>>

\* Mutant: a failed lookup is surfaced to the caller.
ManifestGeo_FailureSurfaces(m) ==
  /\ man[m].pc = "geo"
  /\ \E loc \in getGeoLocation(man[m].clientIp) :
       IF loc = Null
         THEN man' = [man EXCEPT ![m] =
                        ManDone(man[m], ErrorResp(500, "Internal Server Error"))]
         ELSE man' = [man EXCEPT ![m].pc = "log", ![m].location = loc]
  /\ UNCHANGED <<clock, shls, auditLogs, s3, iss, rev, view, crypto>>

\* Step 4: await getGeoLocation(clientIp).
ManifestGeo(m) ==
  /\ man[m].pc = "geo"
  /\ \E loc \in getGeoLocation(man[m].clientIp) :
       man' = [man EXCEPT ![m].pc = "log", ![m].location = loc]
  /\ UNCHANGED <<clock, shls, auditLogs, s3, iss, rev, view, crypto>>

\* Mutant: the event is left to be written after the response.
ManifestLog_Deferred(m) ==
  /\ man[m].pc = "log"
  /\ man' = [man EXCEPT ![m].pc = "count"]
  /\ UNCHANGED <<clock, shls, auditLogs, s3, iss, rev, view, crypto>>

\* Step 5: db.insert(auditLogs) of the SHL_ACCESSED event.
ManifestLog(m) ==
  /\ man[m].pc = "log"
  /\ auditLogs' = Append(auditLogs,
       AuditRow(man[m].id, "SHL_ACCESSED", Null,
                Some(IF man[m].recipient = "" THEN "Anonymous" ELSE man[m].recipient),
                man[m].location, Null))
  /\ man' = [man EXCEPT ![m].pc = "count"]
  /\ UNCHANGED <<clock, shls, s3, iss, rev, view, crypto>>

\* Mutant: the update writes the row back as it was read, status included.
ManifestCount_WritesStatus(m) ==
  /\ man[m].pc = "count"
  /\ shls' = [shls EXCEPT ![man[m].id].accessCount = NextAccessCount(man[m]),
                          ![man[m].id].lastAccessedAt = man[m].now,
                          ![man[m].id].status = "active"]
  /\ man' = [man EXCEPT ![m].pc = "sign", ![m].notified = TRUE]
  /\ UNCHANGED <<clock, auditLogs, s3, iss, rev, view, crypto>>

\* sendAccessNotification(...).catch(log): the promise settles some time
\* later, either way, and the handler reads neither outcome.
sendAccessNotification == {"resolved", "rejected"}

\* Step 6: db.update(shls).set({accessCount: shl.accessCount + 1,
\* lastAccessedAt: now}); then step 7 starts sendAccessNotification without
\* awaiting it, and step 8 calls getBundleUrl.
ManifestCount(m) ==
  /\ man[m].pc = "count"
  /\ shls' = [shls EXCEPT ![man[m].id].accessCount = NextAccessCount(man[m]),
                          ![man[m].id].lastAccessedAt = man[m].now]
  /\ \E outcome \in sendAccessNotification :
       man' = [man EXCEPT ![m].pc = "sign", ![m].notified = TRUE]
  /\ UNCHANGED <<clock, auditLogs, s3, iss, rev, view, crypto>>

\* Steps 8-9: getBundleUrl resolves and the manifest is sent, or the signing
\* call rejects and the framework answers 500.
ManifestSign(m) ==
  /\ man[m].pc = "sign"
  /\ \/ man' = [man EXCEPT ![m] =
                  ManDone(man[m], ManifestResp(getBundleUrl(man[m].shl[1].bundleS3Key)))]
     \/ man' = [man EXCEPT ![m] =
                  ManDone(man[m], ErrorResp(500, "Internal Server Error"))]
  /\ UNCHANGED <<clock, shls, auditLogs, s3, iss, rev, view, crypto>>

handleManifest(m) ==
  \/ ManifestSelect(m)
  \/ ManifestExpire(m)
  \/ ManifestGeo(m)
  \/ ManifestLog(m)
  \/ ManifestCount(m)
  \/ ManifestSign(m)

\* ====================================================================
\* POST /api/shls/:id/revoke                              (routes/shl.ts)
\* ====================================================================
RevIdle ==
  [ pc |-> "idle", id |-> "", cookie |-> NoCookie, readStatus |-> "", resp |-> NoResp ]

RevDone(r, response) == [r EXCEPT !.pc = "done", !.resp = response]

\* Mutant: a session row is accepted whatever its expiresAt.
requireSession_IgnoresExpiry(cookie) ==
  IF cookie = NoCookie THEN Some(ErrorResp(401, "Not authenticated"))
  ELSE IF cookie \notin DOMAIN sessions THEN Some(ErrorResp(401, "Session not found"))
  ELSE Null

\* requireSession: the 401 it replies with, or Null when the session stands.
requireSession(cookie) ==
  IF cookie = NoCookie THEN Some(ErrorResp(401, "Not authenticated"))
  ELSE IF cookie \notin DOMAIN sessions THEN Some(ErrorResp(401, "Session not found"))
  ELSE IF sessions[cookie].expiresAt < clock THEN Some(ErrorResp(401, "Session expired"))
  ELSE Null

\* Mutant: the update leaves revokedBy out.
RevokedRow_NoActor(row, providerId) ==
  [row EXCEPT !.status = "revoked", !.revokedAt = Some(clock)]

\* The fields written by the revoking update.
RevokedRow(row, providerId) ==
  [row EXCEPT !.status = "revoked", !.revokedAt = Some(clock),
              !.revokedBy = Some(providerId)]

\* The ids revoke requests name: an issued link's, and one of no row.
RevokeIds == {IdPool[1], UnassignedId}

\* requireSession, then the select of the link by id and patientId, and the
\* two early returns; request.params.id is read after requireSession.  The sessions rows are fixed here and the select does
\* not read the clock, so the two awaits are one step.
RevokeSelect(r) ==
  /\ rev[r].pc = "idle"
  /\ \A k \in Revokes : k < r => rev[k].pc # "idle"
  /\ \E id \in RevokeIds, cookie \in Cookies :
       LET q == [RevIdle EXCEPT !.id = id, !.cookie = cookie]
       IN  IF requireSession(cookie) # Null
             THEN rev' = [rev EXCEPT ![r] =
                     RevDone([RevIdle EXCEPT !.cookie = cookie], requireSession(cookie)[1])]
           ELSE IF \/ id \notin DOMAIN shls
                   \/ shls[id].patientId # sessions[cookie].patientId
             THEN rev' = [rev EXCEPT ![r] = RevDone(q, ErrorResp(404, "Health link not found"))]
           ELSE IF shls[id].status = "revoked"
             THEN rev' = [rev EXCEPT ![r] =
                     RevDone([q EXCEPT !.readStatus = "revoked"],
                             ErrorResp(400, "Health link is already revoked"))]
           ELSE rev' = [rev EXCEPT ![r] =
                     [q EXCEPT !.pc = "update", !.readStatus = shls[id].status]]
  /\ UNCHANGED <<clock, shls, auditLogs, s3, iss, man, view, crypto>>

\* db.update(shls).set({status: 'revoked', revokedAt, revokedBy}).
RevokeUpdate(r) ==
  /\ rev[r].pc = "update"
  /\ shls' = [shls EXCEPT ![rev[r].id] =
                RevokedRow(shls[rev[r].id], sessions[rev[r].cookie].providerId)]
  /\ rev' = [rev EXCEPT ![r].pc = "log"]
  /\ UNCHANGED <<clock, auditLogs, s3, iss, man, view, crypto>>

\* db.insert(auditLogs) of the SHL_REVOKED event, then the success reply.
RevokeLog(r) ==
  /\ rev[r].pc = "log"
  /\ auditLogs' = Append(auditLogs,
       AuditRow(rev[r].id, "SHL_REVOKED", Some(sessions[rev[r].cookie].providerId),
                Null, Null, Null))
  /\ rev' = [rev EXCEPT ![r] = RevDone(rev[r], OkResp(200))]
  /\ UNCHANGED <<clock, shls, s3, iss, man, view, crypto>>

handleRevokeShl(r) ==
  \/ RevokeSelect(r)
  \/ RevokeUpdate(r)
  \/ RevokeLog(r)

\* ====================================================================
\* GET /api/shls and GET /api/shls/:id                    (routes/shl.ts)
\* ====================================================================
ViewIdle ==
  [ pc |-> "idle", kind |-> "", cookie |-> NoCookie, id |-> "", shl |-> Null,
    code |-> 0, error |-> "", body |-> Null ]

ViewDone(r, c, msg, body) ==
  [r EXCEPT !.pc = "done", !.shl = Null, !.code = c, !.error = msg, !.body = body]

\* Mutant: the expiration alone decides, whatever the stored status is.
ViewedStatus_ExpiryFirst(status, expiresAt, now) ==
  IF expiresAt < now THEN "expired" ELSE status

\* shl.expiresAt < now && shl.status === 'active' ? 'expired' : shl.status
ViewedStatus(status, expiresAt, now) ==
  IF expiresAt < now /\ status = "active" THEN "expired" ELSE status

\* GET /api/shls: requireSession, the select of the patient's links, and the
\* map over the rows with now = new Date().  The rows are given by id (the
\* model has no createdAt to order them by).
handleListShls(v) ==
  /\ view[v].pc = "idle"
  /\ \A k \in Views : k < v => view[k].pc # "idle"
  /\ \E cookie \in Cookies :
       LET q == [ViewIdle EXCEPT !.kind = "list", !.cookie = cookie]
       IN  IF requireSession(cookie) # Null
             THEN view' = [view EXCEPT ![v] =
                     ViewDone(q, 401, requireSession(cookie)[1].error, Null)]
           ELSE LET shlList == {id \in DOMAIN shls :
                                  shls[id].patientId = sessions[cookie].patientId}
                    now == clock
                    results == [id \in shlList |->
                                  [ status |-> ViewedStatus(shls[id].status,
                                                            shls[id].expiresAt, now),
                                    expiresAt |-> shls[id].expiresAt,
                                    accessCount |-> shls[id].accessCount,
                                    documentCount |-> 0 ]]
                IN  view' = [view EXCEPT ![v] = ViewDone(q, 200, "", Some(results))]
  /\ UNCHANGED <<clock, shls, auditLogs, s3, iss, man, rev, crypto>>

\* GET /api/shls/:id, first part: requireSession and the select of the link
\* by id and patientId.
DetailsSelect(v) ==
  /\ view[v].pc = "idle"
  /\ \A k \in Views : k < v => view[k].pc # "idle"
  /\ \E cookie \in Cookies, id \in RevokeIds :
       LET q == [ViewIdle EXCEPT !.kind = "details", !.cookie = cookie]
       IN  IF requireSession(cookie) # Null
             THEN view' = [view EXCEPT ![v] =
                     ViewDone(q, 401, requireSession(cookie)[1].error, Null)]
           ELSE IF \/ id \notin DOMAIN shls
                   \/ shls[id].patientId # sessions[cookie].patientId
             THEN view' = [view EXCEPT ![v] =
                     ViewDone([q EXCEPT !.id = id], 404, "Health link not found", Null)]
           ELSE view' = [view EXCEPT ![v] =
                     [q EXCEPT !.pc = "logs", !.id = id, !.shl = Some(shls[id])]]
  /\ UNCHANGED <<clock, shls, auditLogs, s3, iss, man, rev, crypto>>

\* Second part: the select of the link's audit rows; then now = new Date(),
\* the status, the access log, and the reply.
DetailsLogs(v) ==
  /\ view[v].pc = "logs"
  /\ LET shl == view[v].shl[1]
         logs == SelectSeq(auditLogs, LAMBDA e : e.shlId = view[v].id)
         now == clock
         accessLog == SelectSeq(logs, LAMBDA e : e.eventType = "SHL_ACCESSED")
     IN  view' = [view EXCEPT ![v] =
           ViewDone(view[v], 200, "",
                    Some([ status |-> ViewedStatus(shl.status, shl.expiresAt, now),
                           expiresAt |-> shl.expiresAt,
                           accessCount |-> shl.accessCount,
                           documentCount |-> Len(shl.documentS3Keys),
                           accessLog |-> [k \in 1..Len(accessLog) |->
                                            [ recipient |-> accessLog[k].accessorRecipient[1],
                                              location |-> accessLog[k].accessorLocation ]] ]))]
  /\ UNCHANGED <<clock, shls, auditLogs, s3, iss, man, rev, crypto>>

handleGetShlDetails(v) ==
  \/ DetailsSelect(v)
  \/ DetailsLogs(v)

\* ====================================================================
\* The clock
\* ====================================================================
Tick ==
  /\ clock < MaxClock
  /\ clock' = clock + 1
  /\ UNCHANGED <<shls, auditLogs, s3, iss, man, rev, view, crypto>>

\* ====================================================================
\* POST /api/shl                     (routes/shl.ts, services/shl.ts)
\* ====================================================================
\* request.body.documentIds: missing, or a list of ids of the patient's
\* documents (the first k documents of the source, k = 0 .. MaxDocs).
DocumentIdInputs == {Null} \cup {Some([i \in 1..k |-> i]) : k \in 0..MaxDocs}
\* request.body.phone / email: null or a value.
PhoneInputs == {Null, Some("+15550100")}
EmailInputs == {Null, Some("pat@example.org")}
\* request.body.expirationDays: missing, or an integer below, at the ends of
\* and above the window 1 .. SHL_EXPIRATION_DAYS_MAX.
ExpirationInputs ==
  {Null} \cup {Some(n) : n \in {-1, 0, 1, SHL_EXPIRATION_DAYS_MAX,
                                SHL_EXPIRATION_DAYS_MAX + 1}}

Min(a, b) == IF a < b THEN a ELSE b
Max(a, b) == IF a > b THEN a ELSE b

\* Math.min(Math.max(1, expirationDays || DEFAULT), MAX): a missing value
\* and 0 are both falsy.
validExpiration(expirationDays) ==
  LET given == IF expirationDays = Null \/ expirationDays = Some(0)
                 THEN SHL_EXPIRATION_DAYS_DEFAULT
                 ELSE expirationDays[1]
  IN  Min(Max(1, given), SHL_EXPIRATION_DAYS_MAX)

IssIdle ==
  [ pc |-> "idle", cookie |-> NoCookie, body |-> Null, documentIds |-> <<>>,
    phone |-> Null, email |-> Null, days |-> 0, i |-> 0, uploadedDocs |-> <<>>,
    bundleS3Key |-> Null, expiresAt |-> Null, deliveryStatus |-> Null,
    resp |-> NoResp ]

\* A handler that has replied: its locals are dead.
IssDone(r, response) == [IssIdle EXCEPT !.pc = "done", !.resp = response]

\* The catch block of handleGenerateShl: log and reply 500.
IssueCatch(a) ==
  iss' = [iss EXCEPT ![a] =
            IssDone(iss[a], ErrorResp(500, "Failed to generate health link"))]

\* The row handleGenerateShl inserts; the other columns take their defaults.
ShlRow(cookie, phone, email, bundleS3Key, documentS3Keys, expiresAt) ==
  [ sessionId |-> cookie,
    patientId |-> sessions[cookie].patientId,
    patientPhone |-> phone,
    patientEmail |-> email,
    providerId |-> sessions[cookie].providerId,
    bundleS3Key |-> bundleS3Key,
    documentS3Keys |-> documentS3Keys,
    status |-> "active",
    expiresAt |-> expiresAt,
    accessCount |-> 0,
    lastAccessedAt |-> Null,
    revokedAt |-> Null,
    revokedBy |-> Null ]

NewShlRow(a) ==
  ShlRow(iss[a].cookie, iss[a].phone, iss[a].email, iss[a].bundleS3Key[1],
         iss[a].uploadedDocs, iss[a].expiresAt[1])

\* Mutant: the contact channels are not checked.
validateRequest_DocumentsOnly(documentIds, phone, email) ==
  IF documentIds = Null \/ documentIds = Some(<<>>)
    THEN Some(ErrorResp(400, "At least one document must be selected"))
  ELSE Null

\* "Validate request": the 400 reply of an invalid body, or Null.
validateRequest(documentIds, phone, email) ==
  IF documentIds = Null \/ documentIds = Some(<<>>)
    THEN Some(ErrorResp(400, "At least one document must be selected"))
  ELSE IF phone = Null /\ email = Null
    THEN Some(ErrorResp(400, "At least one contact method (phone or email) is required"))
  ELSE Null

\* request.body as it was sent.
RequestBody(documentIds, phone, email, expirationDays) ==
  [ documentIds |-> documentIds, phone |-> phone, email |-> email,
    expirationDays |-> expirationDays ]

\* A request refused before generateShl: the reply, with the cookie and (for
\* a validation error) the body it was refused for.
IssRefused(cookie, body, response) ==
  [IssIdle EXCEPT !.pc = "done", !.cookie = cookie, !.body = body, !.resp = response]

\* requireSession, request validation, the expiration clamp; generateShl
\* then draws the key and the manifest id and calls getPatient.
IssueStart(a) ==
  /\ iss[a].pc = "idle"
  /\ \A k \in Issues : k < a => iss[k].pc # "idle"
  /\ \E cookie \in Cookies, documentIds \in DocumentIdInputs, phone \in PhoneInputs,
        email \in EmailInputs, expirationDays \in ExpirationInputs :
       IF requireSession(cookie) # Null
         THEN iss' = [iss EXCEPT ![a] =
                IssRefused(cookie, Null, requireSession(cookie)[1])]
       ELSE IF validateRequest(documentIds, phone, email) # Null
         THEN iss' = [iss EXCEPT ![a] =
                IssRefused(cookie,
                           Some(RequestBody(documentIds, phone, email, expirationDays)),
                           validateRequest(documentIds, phone, email)[1])]
       ELSE iss' = [iss EXCEPT ![a] =
                [IssIdle EXCEPT !.pc = "patient", !.cookie = cookie,
                                !.body = Some(RequestBody(documentIds, phone, email,
                                                          expirationDays)),
                                !.documentIds = documentIds[1], !.phone = phone,
                                !.email = email, !.days = validExpiration(expirationDays)]]
  /\ UNCHANGED <<clock, shls, auditLogs, s3, man, rev, view, crypto>>

\* generateShl step 3: getPatient resolves or rejects.  From here on the
\* handler reads documentIds, phone, email and validExpiration only: the
\* body's expirationDays is dead.
IssuePatient(a) ==
  /\ iss[a].pc = "patient"
  /\ \/ iss' = [iss EXCEPT ![a].pc = "meta", ![a].i = 1, ![a].body = Null]
     \/ IssueCatch(a)
  /\ UNCHANGED <<clock, shls, auditLogs, s3, man, rev, view, crypto>>

\* generateShl step 4, per document: getDocumentMetadata.
IssueDocMeta(a) ==
  /\ iss[a].pc = "meta"
  /\ \/ iss' = [iss EXCEPT ![a].pc = "content"]
     \/ IssueCatch(a)
  /\ UNCHANGED <<clock, shls, auditLogs, s3, man, rev, view, crypto>>

\* getDocumentContent, then encryptContent with the 32-byte key.
IssueDocContent(a) ==
  /\ iss[a].pc = "content"
  /\ \/ iss' = [iss EXCEPT ![a].pc = "upload"]
     \/ IssueCatch(a)
  /\ UNCHANGED <<clock, shls, auditLogs, s3, man, rev, view, crypto>>

\* Mutant: the upload is not awaited; the handler goes on whether or not the
\* object reached the bucket.
IssueDocUpload_NotAwaited(a) ==
  /\ iss[a].pc = "upload"
  /\ LET key == generateS3Key(generateManifestId(a),
                              <<"doc", iss[a].documentIds[iss[a].i]>>)
     IN  /\ s3' \in {s3, s3 \cup {key}}
         /\ iss' = [iss EXCEPT ![a].pc = "signdoc"]
  /\ UNCHANGED <<clock, shls, auditLogs, man, rev, view, crypto>>

\* uploadDocument: the PutObject succeeds and the object is in the bucket,
\* or it rejects.
IssueDocUpload(a) ==
  /\ iss[a].pc = "upload"
  /\ LET key == generateS3Key(generateManifestId(a),
                              <<"doc", iss[a].documentIds[iss[a].i]>>)
     IN  \/ /\ s3' = s3 \cup {key}
            /\ iss' = [iss EXCEPT ![a].pc = "signdoc"]
         \/ /\ IssueCatch(a)
            /\ UNCHANGED s3
  /\ UNCHANGED <<clock, shls, auditLogs, man, rev, view, crypto>>

\* generateSignedUrl for the document, uploadedDocs.push, and the next
\* document; after the last one steps 5-7 build and encrypt the bundle and
\* step 8 calls uploadBundle.
IssueDocSign(a) ==
  /\ iss[a].pc = "signdoc"
  /\ LET key == generateS3Key(generateManifestId(a),
                              <<"doc", iss[a].documentIds[iss[a].i]>>)
     IN  \/ iss' = [iss EXCEPT
                      ![a].uploadedDocs = Append(@, key),
                      ![a].i = @ + 1,
                      ![a].pc = IF iss[a].i < Len(iss[a].documentIds)
                                  THEN "meta" ELSE "bundle"]
         \/ IssueCatch(a)
  /\ UNCHANGED <<clock, shls, auditLogs, s3, man, rev, view, crypto>>

\* Mutant: the link row is inserted before the bundle upload is tried.
IssueBundleUpload_InsertFirst(a) ==
  /\ iss[a].pc = "bundle"
  /\ LET key == generateS3Key(generateManifestId(a), <<"bundle">>)
         row == ShlRow(iss[a].cookie, iss[a].phone, iss[a].email, key,
                       iss[a].uploadedDocs, clock + iss[a].days)
     IN  /\ shls' = (generateManifestId(a) :> row) @@ shls
         /\ \/ /\ s3' = s3 \cup {key}
               /\ iss' = [iss EXCEPT ![a].pc = "insert", ![a].bundleS3Key = Some(key),
                                     ![a].expiresAt = Some(clock + iss[a].days)]
            \/ /\ IssueCatch(a)
               /\ UNCHANGED s3
  /\ UNCHANGED <<clock, auditLogs, man, rev, view, crypto>>

\* uploadBundle; then steps 9-11 compute expiresAt and the payload,
\* generateShl returns and the handler calls db.insert(shls).
IssueBundleUpload(a) ==
  /\ iss[a].pc = "bundle"
  /\ LET key == generateS3Key(generateManifestId(a), <<"bundle">>)
     IN  \/ /\ s3' = s3 \cup {key}
            /\ iss' = [iss EXCEPT ![a].pc = "insert", ![a].bundleS3Key = Some(key),
                                  ![a].expiresAt = Some(clock + iss[a].days)]
         \/ /\ IssueCatch(a)
            /\ UNCHANGED s3
  /\ UNCHANGED <<clock, shls, auditLogs, man, rev, view, crypto>>

\* db.insert(shls): the statement commits the row, or it throws (disk full,
\* database locked, ...) and nothing is written.
IssueInsertShl(a) ==
  /\ iss[a].pc = "insert"
  /\ \/ /\ shls' = (generateManifestId(a) :> NewShlRow(a)) @@ shls
        /\ iss' = [iss EXCEPT ![a].pc = "created"]
     \/ /\ IssueCatch(a)
        /\ UNCHANGED shls
  /\ UNCHANGED <<clock, auditLogs, s3, man, rev, view, crypto>>

\* db.insert(auditLogs) of SHL_CREATED; then sendDeliveryNotification.
IssueLogCreated(a) ==
  /\ iss[a].pc = "created"
  /\ \/ /\ auditLogs' = Append(auditLogs,
             CreatedEvent(generateManifestId(a), sessions[iss[a].cookie].providerId,
                          Len(iss[a].documentIds), iss[a].days))
        /\ iss' = [iss EXCEPT ![a].pc = "deliver"]
     \/ /\ IssueCatch(a)
        /\ UNCHANGED auditLogs
  /\ UNCHANGED <<clock, shls, s3, man, rev, view, crypto>>

\* sendSms / sendEmail inside the try / catch of sendDeliveryNotification:
\* the call returns and the channel is 'sent', or it throws and the channel
\* is 'failed'.
sendSms == {"sent", "failed"}
sendEmail == {"sent", "failed"}

\* Mutant: a send that throws is not caught and reaches the handler's catch.
IssueDeliver_SendThrows(a) ==
  /\ iss[a].pc = "deliver"
  /\ \E sms \in (IF iss[a].phone # Null THEN sendSms ELSE {"skipped"}),
        email \in (IF iss[a].email # Null THEN sendEmail ELSE {"skipped"}) :
       IF "failed" \in {sms, email}
         THEN IssueCatch(a)
         ELSE iss' = [iss EXCEPT
                ![a].pc = IF iss[a].phone # Null THEN "logsms" ELSE "logemail",
                ![a].deliveryStatus = Some([sms |-> sms, email |-> email])]
  /\ UNCHANGED <<clock, shls, auditLogs, s3, man, rev, view, crypto>>

\* sendDeliveryNotification: a channel not supplied stays 'skipped'; the
\* function resolves with the result and the handler goes on to the delivery
\* events.
IssueDeliver(a) ==
  /\ iss[a].pc = "deliver"
  /\ \E sms \in (IF iss[a].phone # Null THEN sendSms ELSE {"skipped"}),
        email \in (IF iss[a].email # Null THEN sendEmail ELSE {"skipped"}) :
       iss' = [iss EXCEPT
                ![a].pc = IF iss[a].phone # Null THEN "logsms" ELSE "logemail",
                ![a].deliveryStatus = Some([sms |-> sms, email |-> email])]
  /\ UNCHANGED <<clock, shls, auditLogs, s3, man, rev, view, crypto>>

\* The 201 reply: the id, the viewer URL, whose payload holds the key, and
\* the delivery status.
Created(a) ==
  [ code |-> 201, error |-> "", files |-> <<>>,
    id |-> generateManifestId(a),
    deliveryStatus |-> iss[a].deliveryStatus[1],
    viewerUrl |-> createViewerUrl(createShlPayload(generateManifestId(a),
                                                   generateShlKey(a),
                                                   iss[a].expiresAt[1])) ]

\* if (phone) db.insert(auditLogs) of the SMS delivery event.
IssueLogSms(a) ==
  /\ iss[a].pc = "logsms"
  /\ \/ /\ auditLogs' = Append(auditLogs,
             DeliveryEvent(generateManifestId(a), "phone", iss[a].phone[1],
                           "SHL_DELIVERED_SMS", iss[a].deliveryStatus[1].sms))
        /\ iss' = [iss EXCEPT ![a] =
                     IF iss[a].email # Null THEN [iss[a] EXCEPT !.pc = "logemail"]
                     ELSE IssDone(iss[a], Created(a))]
     \/ /\ IssueCatch(a)
        /\ UNCHANGED auditLogs
  /\ UNCHANGED <<clock, shls, s3, man, rev, view, crypto>>

\* if (email) db.insert(auditLogs) of the e-mail delivery event; reply 201.
IssueLogEmail(a) ==
  /\ iss[a].pc = "logemail"
  /\ \/ /\ auditLogs' = Append(auditLogs,
             DeliveryEvent(generateManifestId(a), "email", iss[a].email[1],
                           "SHL_DELIVERED_EMAIL", iss[a].deliveryStatus[1].email))
        /\ iss' = [iss EXCEPT ![a] = IssDone(iss[a], Created(a))]
     \/ /\ IssueCatch(a)
        /\ UNCHANGED auditLogs
  /\ UNCHANGED <<clock, shls, s3, man, rev, view, crypto>>

handleGenerateShl(a) ==
  \/ IssueStart(a)
  \/ IssuePatient(a)
  \/ IssueDocMeta(a)
  \/ IssueDocContent(a)
  \/ IssueDocUpload(a)
  \/ IssueDocSign(a)
  \/ IssueBundleUpload(a)
  \/ IssueInsertShl(a)
  \/ IssueLogCreated(a)
  \/ IssueDeliver(a)
  \/ IssueLogSms(a)
  \/ IssueLogEmail(a)

\* ====================================================================
\* The encryption service                    (services/encryption.ts)
\* ====================================================================
SHL_KEY_LENGTH == 32
SHL_KEY_BYTES == SHL_KEY_LENGTH

MaxContentLen == 2  \* bytes of content a caller encrypts

\* The outcome of a call: the value returned, or the error thrown.
Returned(v) == [ok |-> TRUE, value |-> Some(v), error |-> Null]
Thrown(name, message) ==
  [ok |-> FALSE, value |-> Null, error |-> Some([name |-> name, message |-> message])]
InvalidKeySize == Thrown("Error", "Invalid key size")

\* jose.base64url.encode: three bytes make four 6-bit digits, and a rest of
\* one or two bytes makes two or three digits, without padding.
RECURSIVE Base64UrlEncode(_)
Base64UrlEncode(b) ==
  IF Len(b) = 0 THEN << >>
  ELSE IF Len(b) = 1 THEN << b[1] \div 4, (b[1] % 4) * 16 >>
  ELSE IF Len(b) = 2
    THEN << b[1] \div 4, (b[1] % 4) * 16 + b[2] \div 16, (b[2] % 16) * 4 >>
  ELSE << b[1] \div 4, (b[1] % 4) * 16 + b[2] \div 16,
          (b[2] % 16) * 4 + b[3] \div 64, b[3] % 64 >>
       \o Base64UrlEncode(SubSeq(b, 4, Len(b)))

\* jose.base64url.decode: four digits make three bytes; a rest of two or
\* three digits makes one or two bytes and a single digit makes none.
RECURSIVE Base64UrlDecode(_)
Base64UrlDecode(s) ==
  IF Len(s) < 2 THEN << >>
  ELSE IF Len(s) = 2 THEN << s[1] * 4 + s[2] \div 16 >>
  ELSE IF Len(s) = 3
    THEN << s[1] * 4 + s[2] \div 16, (s[2] % 16) * 16 + s[3] \div 4 >>
  ELSE << s[1] * 4 + s[2] \div 16, (s[2] % 16) * 16 + s[3] \div 4,
          (s[3] % 4) * 64 + s[4] >>
       \o Base64UrlDecode(SubSeq(s, 5, Len(s)))

\* A256GCM.  The counter-mode key stream is a function of key, iv and
\* position; the cipher adds it to the plaintext byte by byte and removes it
\* again.  The authentication tag binds key, iv, the protected header (the
\* additional data) and the ciphertext.
KeyStream(key, iv, i) ==
  (key[((i - 1) % Len(key)) + 1] + 3 * iv[((i - 1) % Len(iv)) + 1] + i) % 256
GcmEncrypt(key, iv, plaintext) ==
  [i \in 1..Len(plaintext) |-> (plaintext[i] + KeyStream(key, iv, i)) % 256]
GcmDecrypt(key, iv, ciphertext) ==
  [i \in 1..Len(ciphertext) |-> (ciphertext[i] + 256 - KeyStream(key, iv, i)) % 256]
GcmTag(key, iv, aad, ciphertext) ==
  [key |-> key, iv |-> iv, aad |-> aad, ciphertext |-> ciphertext]

\* new jose.CompactEncrypt(content).setProtectedHeader(header).encrypt(key):
\* the five parts of the compact serialization; with alg 'dir' the encrypted
\* key part is empty.
CompactEncrypt(plaintext, protectedHeader, key, iv) ==
  LET ciphertext == GcmEncrypt(key, iv, plaintext)
  IN  << protectedHeader, << >>, Base64UrlEncode(iv), Base64UrlEncode(ciphertext),
         GcmTag(key, iv, protectedHeader, ciphertext) >>

\* Mutant: the tag is not verified before the plaintext is handed out.
compactDecrypt_Unauthenticated(jwe, key) ==
  IF Len(jwe) # 5 THEN Thrown("JWEInvalid", "Invalid Compact JWE")
  ELSE Returned([ plaintext |-> GcmDecrypt(key, Base64UrlDecode(jwe[3]),
                                          Base64UrlDecode(jwe[4])),
                  protectedHeader |-> jwe[1] ])

\* jose.compactDecrypt(jwe, key): split into the five parts, verify the tag
\* over header, iv and ciphertext under the key, and only then return the
\* plaintext and the protected header.
compactDecrypt(jwe, key) ==
  IF Len(jwe) # 5 THEN Thrown("JWEInvalid", "Invalid Compact JWE")
  ELSE LET protectedHeader == jwe[1]
           iv == Base64UrlDecode(jwe[3])
           ciphertext == Base64UrlDecode(jwe[4])
       IN  IF jwe[5] # GcmTag(key, iv, protectedHeader, ciphertext)
             THEN Thrown("JWEDecryptionFailed", "decryption operation failed")
             ELSE Returned([ plaintext |-> GcmDecrypt(key, iv, ciphertext),
                             protectedHeader |-> protectedHeader ])

\* Mutant: the content type is left out of the protected header.
encryptContent_NoContentType(content, key, contentType, iv) ==
  IF Len(key) # SHL_KEY_BYTES THEN InvalidKeySize
  ELSE Returned(CompactEncrypt(content, [alg |-> "dir", enc |-> "A256GCM", cty |-> ""],
                               key, iv))

\* encryptContent(content, key, contentType); iv is the initialization
\* vector the library draws.
encryptContent(content, key, contentType, iv) ==
  IF Len(key) # SHL_KEY_BYTES THEN InvalidKeySize
  ELSE Returned(CompactEncrypt(content,
                               [alg |-> "dir", enc |-> "A256GCM", cty |-> contentType],
                               key, iv))

\* Mutant: the key is handed to the library unchecked, which refuses it with
\* an error of its own.
decryptContent_KeyUnchecked(jwe, key) ==
  IF Len(key) # SHL_KEY_BYTES
    THEN Thrown("TypeError", "Invalid key size for alg: A256GCM")
  ELSE LET r == compactDecrypt(jwe, key)
       IN  IF ~r.ok THEN r
           ELSE Returned([ content |-> r.value[1].plaintext,
                           contentType |-> r.value[1].protectedHeader.cty ])

\* decryptContent(jwe, key).
decryptContent(jwe, key) ==
  IF Len(key) # SHL_KEY_BYTES THEN InvalidKeySize
  ELSE LET r == compactDecrypt(jwe, key)
       IN  IF ~r.ok THEN r
           ELSE Returned([ content |-> r.value[1].plaintext,
                           contentType |-> r.value[1].protectedHeader.cty ])

\* decodeKey(keyBase64Url).
decodeKey(keyBase64Url) ==
  LET key == Base64UrlDecode(keyBase64Url)
  IN  IF Len(key) # SHL_KEY_BYTES THEN InvalidKeySize ELSE Returned(key)

\* The arguments callers pass.  Contents: every byte string of up to
\* MaxContentLen bytes over the least, the greatest and a middle byte value.
ByteSamples == {0, 65, 255}
Contents == UNION { [1..n -> ByteSamples] : n \in 0..MaxContentLen }
ContentTypes == {"application/fhir+json", "application/pdf", ""}
\* Keys of SHL_KEY_BYTES bytes: KeyA, a key that differs from it in the last
\* byte only, and one that differs in the first byte only.
KeyA == [i \in 1..SHL_KEY_BYTES |-> (7 * i) % 256]
KeyB == [KeyA EXCEPT ![SHL_KEY_BYTES] = (@ + 1) % 256]
KeyC == [KeyA EXCEPT ![1] = (@ + 128) % 256]
GoodKeys == {KeyA, KeyB, KeyC}
\* Keys of another size: none, 16, one less and one more than SHL_KEY_BYTES.
BadKeys == {SubSeq(KeyA, 1, n) : n \in {0, 16, SHL_KEY_BYTES - 1}} \cup {KeyA \o <<0>>}
Keys == GoodKeys \cup BadKeys
\* The 12-byte initialization vectors the library may draw.
Ivs == { [i \in 1..12 |-> (s * i) % 256] : s \in {1, 5} }

CryptoIdle ==
  [ pc |-> "idle", content |-> << >>, contentType |-> "", key |-> KeyA, iv |-> << >>,
    otherKey |-> KeyA, jwe |-> Null, decrypted |-> Null, decoded |-> Null ]

\* A caller with its arguments chosen: content, content type, the key it
\* seals with and the key it later opens with.
CryptoInputs ==
  { [CryptoIdle EXCEPT !.content = c, !.contentType = t, !.key = k, !.otherKey = k2]
    : c \in Contents, t \in ContentTypes, k \in Keys, k2 \in Keys }

\* await encryptContent(content, key, contentType)
CryptoEncrypt ==
  /\ crypto.pc = "idle"
  /\ \E iv \in Ivs :
       crypto' = [crypto EXCEPT
                    !.pc = "encrypted", !.iv = iv,
                    !.jwe = Some(encryptContent(crypto.content, crypto.key,
                                                crypto.contentType, iv))]
  /\ UNCHANGED <<clock, shls, auditLogs, s3, iss, man, rev, view>>

\* await decryptContent(jwe, otherKey), on a jwe that encryptContent returned
CryptoDecrypt ==
  /\ crypto.pc = "encrypted"
  /\ crypto.jwe[1].ok
  /\ crypto' = [crypto EXCEPT
                  !.pc = "decrypted",
                  !.decrypted = Some(decryptContent(crypto.jwe[1].value[1],
                                                    crypto.otherKey))]
  /\ UNCHANGED <<clock, shls, auditLogs, s3, iss, man, rev, view>>

\* decodeKey(keyBase64Url) on the base64url form of the key, as the link's
\* payload carries it
CryptoDecodeKey ==
  /\ crypto.pc = "idle"
  /\ crypto' = [crypto EXCEPT
                  !.pc = "decoded",
                  !.decoded = Some(decodeKey(Base64UrlEncode(crypto.key)))]
  /\ UNCHANGED <<clock, shls, auditLogs, s3, iss, man, rev, view>>

\* ====================================================================
\* The system
\* ====================================================================
\* The server after start-up: empty tables, empty bucket.
InitEmpty ==
  /\ clock = 1
  /\ shls = << >>
  /\ auditLogs = << >>
  /\ s3 = {}
  /\ iss = [a \in Issues |-> IssIdle]
  /\ man = [m \in Manifests \cup Accessors |-> ManIdle]
  /\ rev = [r \in Revokes |-> RevIdle]
  /\ view = [v \in Views |-> ViewIdle]
  /\ crypto = CryptoIdle

\* Issuance alone, from the empty server.
NextIssue ==
  \/ \E a \in Issues : handleGenerateShl(a)
  \/ Tick

SpecIssue == InitEmpty /\ [][NextIssue]_vars

\* The server after one issuance by session "sesOld" has committed: the link
\* LinkId with one document, delivered by SMS, issued at some earlier time (the
\* session has expired since), so that its expiresAt lies before, at or after
\* the clock's first value.
LinkId == IdPool[1]
LinkExpiresAt == 0..MaxClock
InitLinked ==
  /\ clock = 1
  /\ \E expiresAt \in LinkExpiresAt :
       shls = (LinkId :>
                 ShlRow("sesOld", Some("+15550100"), Null,
                        generateS3Key(LinkId, <<"bundle">>),
                        << generateS3Key(LinkId, <<"doc", 1>>) >>, expiresAt))
  /\ auditLogs = << CreatedEvent(LinkId, sessions["sesOld"].providerId, 1,
                                 SHL_EXPIRATION_DAYS_DEFAULT),
                    DeliveryEvent(LinkId, "phone", "+15550100", "SHL_DELIVERED_SMS", "sent") >>
  /\ s3 = { generateS3Key(LinkId, <<"bundle">>), generateS3Key(LinkId, <<"doc", 1>>) }
  /\ iss = [a \in Issues |-> IssIdle]
  /\ man = [m \in Manifests \cup Accessors |-> ManIdle]
  /\ rev = [r \in Revokes |-> RevIdle]
  /\ view = [v \in Views |-> ViewIdle]
  /\ crypto = CryptoIdle

\* The life of issued links: manifest requests, revoke requests, the clock.
Next ==
  \/ \E m \in Manifests : handleManifest(m)
  \/ \E r \in Revokes : handleRevokeShl(r)
  \/ Tick

Spec == InitLinked /\ [][Next]_vars

\* Manifest requests alone, with the progress the server itself guarantees:
\* a handler whose awaited database statement or local signing call has
\* settled is resumed by the event loop.  No fairness is stated for
\* ManifestGeo: that step is enabled by ip-api.com's answer, and the fetch
\* is given no timeout and no abort signal.
NextManifest ==
  \/ \E m \in Manifests : handleManifest(m)
  \/ Tick

SpecManifestLive ==
  /\ InitLinked
  /\ [][NextManifest]_vars
  /\ \A m \in Manifests :
       /\ WF_vars(ManifestExpire(m))
       /\ WF_vars(ManifestLog(m))
       /\ WF_vars(ManifestCount(m))
       /\ WF_vars(ManifestSign(m))

\* The encryption service alone: a caller whose arguments are drawn from
\* CryptoInputs encrypts and then decrypts, or decodes its key.
InitCrypto ==
  /\ clock = 1
  /\ shls = << >>
  /\ auditLogs = << >>
  /\ s3 = {}
  /\ iss = [a \in Issues |-> IssIdle]
  /\ man = [m \in Manifests \cup Accessors |-> ManIdle]
  /\ rev = [r \in Revokes |-> RevIdle]
  /\ view = [v \in Views |-> ViewIdle]
  /\ crypto \in CryptoInputs

NextCrypto ==
  \/ CryptoEncrypt
  \/ CryptoDecrypt
  \/ CryptoDecodeKey

SpecCrypto == InitCrypto /\ [][NextCrypto]_vars

\* The owner's views beside the life of a link: list and details requests,
\* with one manifest request and one revoke request to change the link under
\* them, and the clock.
NextView ==
  \/ \E v \in Views : handleListShls(v)
  \/ \E v \in Views : handleGetShlDetails(v)
  \/ handleManifest(1)
  \/ handleRevokeShl(1)
  \/ Tick

SpecView == InitLinked /\ [][NextView]_vars

\* Manifest requests alone, NumAccess of them, and the clock: the requests
\* that read a link's accessCount and write it back.
NextAccess ==
  \/ \E m \in Accessors : handleManifest(m)
  \/ Tick

SpecAccess == InitLinked /\ [][NextAccess]_vars

\* ====================================================================
\* Claims
\* ====================================================================
Expired410 == ErrorResp(410, "This link has expired")
Revoked410 == ErrorResp(410, "This link has been revoked")

\* Manifest request m starts in this step: its select runs.
ManStarts(m) == man[m].pc = "idle" /\ man'[m].pc # "idle"
\* No manifest request is between its select and its reply.
ManifestsQuiet == \A m \in Manifests : man[m].pc \in {"idle", "done"}
\* The manifest requests for link id that went past the status and
\* expiration checks and have replied.
Accessed(id) ==
  {m \in Manifests : man[m].pc = "done" /\ man[m].id = id /\ man[m].notified}
EventsIn(log, id, type) ==
  {k \in 1..Len(log) : log[k].shlId = id /\ log[k].eventType = type}

\* C1: when N manifest requests for an active, unexpired link have all
\* completed, in whatever order their database steps ran, the link's
\* accessCount has grown by N (from the 0 it was inserted with) and N
\* SHL_ACCESSED events are recorded for it.
C1_NoLostAccess ==
  ManifestsQuiet =>
    \A id \in DOMAIN shls :
      /\ shls[id].accessCount = Cardinality(Accessed(id))
      /\ Cardinality(EventsOf(id, "SHL_ACCESSED")) = Cardinality(Accessed(id))

\* C2: once a link's persisted status is 'revoked', no step of any request
\* changes it to another value.
C2_RevokedIsNeverOverwritten ==
  [][\A id \in DOMAIN shls :
       shls[id].status = "revoked" => shls'[id].status = "revoked"]_vars

\* C3: once a link has been revoked, its persisted status is never 'active'
\* again.  A link counts as revoked from the step that writes 'revoked';
\* that write stamps revokedAt, and the stamp must stay.
HasBeenRevoked(row) == row.status = "revoked" \/ row.revokedAt # Null
C3_RevokedNeverActiveAgain ==
  [][\A id \in DOMAIN shls :
       HasBeenRevoked(shls[id]) =>
         /\ shls'[id].status # "active"
         /\ shls'[id].revokedAt # Null]_vars
\* A link that was revoked and then accessed again and again by requests that
\* had read it before the revocation.
C3_Witness ==
  \E id \in DOMAIN shls :
    /\ shls[id].revokedAt # Null
    /\ shls[id].accessCount > 0
    /\ \E m \in Manifests : man[m].pc = "done" /\ man[m].resp = Revoked410

\* C4: a manifest request that finds a link not revoked and with expiresAt
\* before the current time takes the expiry path; it replies 410 with the
\* 'expired' message, and as it completes the persisted status is 'expired'.
C4_LazyExpiry ==
  [][\A m \in Manifests :
       /\ ( /\ ManStarts(m)
            /\ man'[m].id \in DOMAIN shls
            /\ shls[man'[m].id].status # "revoked"
            /\ shls[man'[m].id].expiresAt < clock )
          => man'[m].pc = "expire"
       /\ man[m].pc = "expire" =>
            \/ man'[m] = man[m]
            \/ /\ man'[m].pc = "done"
               /\ man'[m].resp = Expired410
               /\ shls'[man[m].id].status = "expired"]_vars
\* The first request on a link that expired while still 'active' has replied.
C4_Witness ==
  \E m \in Manifests :
    /\ man[m].pc = "done"
    /\ man[m].resp = Expired410
    /\ shls[man[m].id].status = "expired"
    /\ \A k \in Manifests : k # m => man[k].pc = "idle"

\* Manifest request m0 has persisted 'expired' for the link and replied.
HasExpired(m0, id) ==
  man[m0].pc = "done" /\ man[m0].id = id /\ man[m0].resp = Expired410

HasRevoked(r, id) ==
  rev[r].pc = "done" /\ rev[r].id = id /\ rev[r].resp = OkResp(200)

\* C6: after a revoke request for a link has completed successfully, every
\* manifest request for it that starts afterwards replies 410 with the
\* 'revoked' message and the status stays 'revoked'.
C6_RevokedReplyAfterRevoke ==
  [][\A r \in Revokes, m \in Manifests :
       (HasRevoked(r, man'[m].id) /\ ManStarts(m)) =>
         /\ man'[m].pc = "done"
         /\ man'[m].resp = Revoked410
         /\ shls'[man'[m].id].status = "revoked"]_vars

\* C7: a manifest request whose id matches no row replies 404 'Link not
\* found', the same reply for a well-formed and for a malformed id, and
\* leaves the shls rows and the audit log as they were.
C7_UnknownIdNotFound ==
  [][\A m \in Manifests :
       (ManStarts(m) /\ man'[m].id \notin DOMAIN shls) =>
         /\ man'[m].pc = "done"
         /\ man'[m].resp = ErrorResp(404, "Link not found")
         /\ ~man'[m].notified
         /\ shls' = shls
         /\ auditLogs' = auditLogs]_vars
\* Both kinds of id have been asked for, and answered alike.
C7_Witness ==
  \E m1, m2 \in Manifests :
    /\ man[m1].pc = "done" /\ man[m1].id = UnassignedId
    /\ man[m2].pc = "done" /\ man[m2].id = MalformedId
    /\ man[m1].resp = man[m2].resp
    /\ man[m1].resp.code = 404

\* Revoke request r starts in this step, with a live session of the patient
\* the link belongs to.
RevStartsOwn(r) ==
  /\ rev[r].pc = "idle" /\ rev'[r].pc # "idle"
  /\ rev'[r].cookie \in DOMAIN sessions
  /\ sessions[rev'[r].cookie].expiresAt >= clock
  /\ rev'[r].id \in DOMAIN shls
  /\ shls[rev'[r].id].patientId = sessions[rev'[r].cookie].patientId

\* C8: an authenticated revoke request on one of its patient's links replies
\* 'already revoked' and changes neither the row nor the audit log when the
\* status is 'revoked'; otherwise it writes status 'revoked', revokedAt and
\* revokedBy (the session's provider) to the row, appends one SHL_REVOKED
\* event of that provider, and replies success.
C8_Revoke ==
  [][\A r \in Revokes :
       /\ RevStartsOwn(r) =>
            IF shls[rev'[r].id].status = "revoked"
              THEN /\ rev'[r].pc = "done"
                   /\ rev'[r].resp = ErrorResp(400, "Health link is already revoked")
                   /\ shls' = shls
                   /\ auditLogs' = auditLogs
              ELSE /\ rev'[r].pc = "update"
                   /\ shls[rev'[r].id].status \in {"active", "expired"}
       /\ (rev[r].pc = "update" /\ rev'[r] # rev[r]) =>
            /\ rev'[r].pc = "log"
            /\ shls'[rev[r].id] =
                 [shls[rev[r].id] EXCEPT
                    !.status = "revoked", !.revokedAt = Some(clock),
                    !.revokedBy = Some(sessions[rev[r].cookie].providerId)]
            /\ auditLogs' = auditLogs
       /\ (rev[r].pc = "log" /\ rev'[r] # rev[r]) =>
            /\ rev'[r].pc = "done"
            /\ rev'[r].resp = OkResp(200)
            /\ shls' = shls
            /\ Len(auditLogs') = Len(auditLogs) + 1
            /\ auditLogs'[Len(auditLogs')].shlId = rev[r].id
            /\ auditLogs'[Len(auditLogs')].eventType = "SHL_REVOKED"
            /\ auditLogs'[Len(auditLogs')].providerId =
                 Some(sessions[rev[r].cookie].providerId)
            /\ \A k \in 1..Len(auditLogs) : auditLogs'[k] = auditLogs[k]]_vars
\* One revoke request has revoked an expired link and a later one has been
\* told so.
C8_Witness ==
  \E r1, r2 \in Revokes :
    /\ HasRevoked(r1, LinkId)
    /\ rev[r1].readStatus = "expired"
    /\ rev[r2].pc = "done" /\ rev[r2].id = LinkId
    /\ rev[r2].resp = ErrorResp(400, "Health link is already revoked")
    /\ shls[LinkId].status = "revoked"
    /\ shls[LinkId].revokedBy = Some("unknown")
    /\ Cardinality(EventsOf(LinkId, "SHL_REVOKED")) = 1

\* The positions of an issuance inside generateShl: its fetches and uploads.
GenerateShlSteps == {"patient", "meta", "content", "upload", "signdoc", "bundle"}
\* The objects attempt a has put in the bucket.
ArtifactsOf(a) == {key \in s3 : key[2] = generateManifestId(a)}

\* C9: when a fetch or an upload of generateShl fails, the issuance request
\* replies 500, and neither then nor later is there a link record or a
\* SHL_CREATED event for the attempt.
C9_FailedIssuanceLeavesNoLink ==
  [][\A a \in Issues :
       LET id == generateManifestId(a) IN
       /\ (iss[a].pc \in GenerateShlSteps /\ iss'[a].pc = "done") =>
            /\ iss'[a].resp.code = 500
            /\ id \notin DOMAIN shls'
            /\ EventsIn(auditLogs', id, "SHL_CREATED") = {}
       /\ iss[a].pc = "done" =>
            /\ (id \in DOMAIN shls' <=> id \in DOMAIN shls)
            /\ EventsIn(auditLogs', id, "SHL_CREATED") =
                 EventsIn(auditLogs, id, "SHL_CREATED")]_vars
\* An attempt has failed after an upload of its own went through.
C9_Witness ==
  \E a \in Issues :
    /\ iss[a].pc = "done"
    /\ iss[a].resp = ErrorResp(500, "Failed to generate health link")
    /\ ArtifactsOf(a) # {}
    /\ generateManifestId(a) \notin DOMAIN shls

\* C10: once an issuance request has replied with its error, none of the
\* objects the attempt uploaded remain in the bucket.
C10_FailedIssuanceLeavesNoArtifact ==
  \A a \in Issues :
    (iss[a].pc = "done" /\ iss[a].resp.code = 500) => ArtifactsOf(a) = {}

\* C11: whenever an issuance request has replied with a failure, whichever
\* step failed, no link record with the attempt's id is in the shls table.
C11_FailedIssuanceCommitsNothing ==
  \A a \in Issues :
    (iss[a].pc = "done" /\ iss[a].resp.code >= 500) =>
      generateManifestId(a) \notin DOMAIN shls

\* The event types of the audit log that record a change of a link's state.
LinkEventTypes == {"SHL_CREATED", "SHL_ACCESSED", "SHL_REVOKED"}
\* The events of link id that would record its lazy expiry: the schema's enum
\* has no such type, so these are the events of any other type.
ExpiryEvents(id) ==
  {k \in 1..Len(auditLogs) :
     /\ auditLogs[k].shlId = id
     /\ auditLogs[k].eventType \notin
          LinkEventTypes \cup {"SHL_DELIVERED_SMS", "SHL_DELIVERED_EMAIL",
                               "SHL_DELIVERY_FAILED"}}

\* C12: in every reachable state each change of a link's persisted state is
\* there together with its one audit event: one SHL_CREATED per link, as many
\* SHL_ACCESSED events as the accessCount, one SHL_REVOKED exactly when the
\* link carries a revocation, an event for a persisted 'expired', and no
\* event of a link that has no record.
C12_ChangePairedWithEvent ==
  /\ \A id \in DOMAIN shls :
       /\ Cardinality(EventsOf(id, "SHL_CREATED")) = 1
       /\ Cardinality(EventsOf(id, "SHL_ACCESSED")) = shls[id].accessCount
       /\ Cardinality(EventsOf(id, "SHL_REVOKED")) =
            (IF shls[id].revokedAt # Null THEN 1 ELSE 0)
       /\ shls[id].status = "expired" => ExpiryEvents(id) # {}
  /\ \A k \in 1..Len(auditLogs) : auditLogs[k].shlId \in DOMAIN shls

\* C13: in every reachable state the bundle object and every document object
\* a link record names are in the bucket: they were stored before the record
\* was inserted.
C13_LinkArtifactsStored ==
  \A id \in DOMAIN shls :
    /\ shls[id].bundleS3Key \in s3
    /\ \A k \in 1..Len(shls[id].documentS3Keys) : shls[id].documentS3Keys[k] \in s3
\* A link record with two documents has been inserted.
C13_Witness ==
  \E a \in Issues :
    /\ generateManifestId(a) \in DOMAIN shls
    /\ Len(shls[generateManifestId(a)].documentS3Keys) = 2
    /\ iss[a].pc = "created"

\* C14: an authenticated issuance request whose documentIds are missing or
\* empty, or that has neither phone nor email, is refused with a 400
\* validation error in its first step, with the bucket, the shls table and
\* the audit log untouched; only a request with documents and a contact
\* channel goes on to generateShl.
C14_InvalidRequestRejectedFirst ==
  [][\A a \in Issues :
       (iss[a].pc = "idle" /\ iss'[a].pc # "idle") =>
         LET r == iss'[a] IN
         /\ r.pc \in {"patient", "done"}
         /\ r.pc = "patient" =>
              /\ Len(r.documentIds) > 0
              /\ r.phone # Null \/ r.email # Null
         /\ r.pc = "done" =>
              /\ r.resp.code = (IF requireSession(r.cookie) = Null THEN 400 ELSE 401)
              /\ r.resp.code = 400 =>
                   \/ r.body[1].documentIds \in {Null, Some(<<>>)}
                   \/ r.body[1].phone = Null /\ r.body[1].email = Null
              /\ UNCHANGED <<shls, auditLogs, s3>>]_vars
\* A request with a live session and documents, but no contact channel, has
\* been refused.
C14_Witness ==
  \E a \in Issues :
    /\ iss[a].pc = "done"
    /\ iss[a].resp.code = 400
    /\ requireSession(iss[a].cookie) = Null
    /\ iss[a].body[1].documentIds \notin {Null, Some(<<>>)}
    /\ iss[a].body[1].phone = Null /\ iss[a].body[1].email = Null
    /\ s3 = {} /\ DOMAIN shls = {} /\ auditLogs = <<>>

\* C15: for every expirationDays a request supplies, the window used is the
\* supplied value clamped to 1 .. SHL_EXPIRATION_DAYS_MAX; the configured
\* default is used only when the request supplies none.
C15_WindowIsClampOfSupplied ==
  \A a \in Issues :
    iss[a].pc = "patient" =>
      LET supplied == iss[a].body[1].expirationDays IN
      iss[a].days = IF supplied = Null THEN SHL_EXPIRATION_DAYS_DEFAULT
                    ELSE Min(Max(1, supplied[1]), SHL_EXPIRATION_DAYS_MAX)

\* The SHL_ACCESSED row of manifest request record r.
AccessedEventOf(r) ==
  [ shlId |-> r.id, eventType |-> "SHL_ACCESSED", providerId |-> Null,
    accessorRecipient |-> Some(IF r.recipient = "" THEN "Anonymous" ELSE r.recipient),
    accessorLocation |-> r.location, details |-> Null ]

\* C16: a manifest request replies 200 only from its last step, and it gets
\* there only after its SHL_ACCESSED event was appended and then its
\* accessCount / lastAccessedAt update was written; the last step, whether it
\* replies 200 or is aborted, leaves both writes in place.
C16_AccessRecordedBeforeResponse ==
  [][\A m \in Manifests :
       /\ (man[m].pc # "done" /\ man'[m].pc = "done" /\ man'[m].resp.code = 200) =>
            man[m].pc = "sign"
       /\ (man[m].pc # "sign" /\ man'[m].pc = "sign") =>
            /\ man[m].pc = "count"
            /\ shls'[man[m].id].accessCount = man[m].shl[1].accessCount + 1
            /\ shls'[man[m].id].lastAccessedAt = man[m].now
            /\ \E k \in 1..Len(auditLogs) : auditLogs[k] = AccessedEventOf(man[m])
       /\ (man[m].pc # "count" /\ man'[m].pc = "count") =>
            /\ man[m].pc = "log"
            /\ auditLogs' = Append(auditLogs, AccessedEventOf(man[m]))
       /\ (man[m].pc = "sign" /\ man'[m].pc # "sign") =>
            /\ man'[m].pc = "done"
            /\ shls' = shls
            /\ auditLogs' = auditLogs
            /\ EventsOf(man[m].id, "SHL_ACCESSED") # {}
            /\ shls[man[m].id].accessCount >= 1
            /\ shls[man[m].id].lastAccessedAt # Null]_vars
\* One request has been answered with the manifest and another was aborted
\* after its writes; both accesses are on record.
C16_Witness ==
  \E m1, m2 \in Manifests :
    /\ man[m1].pc = "done" /\ man[m1].resp.code = 200
    /\ man[m2].pc = "done" /\ man[m2].resp.code = 500 /\ man[m2].notified
    /\ man[m1].id = man[m2].id
    /\ Cardinality(EventsOf(man[m1].id, "SHL_ACCESSED")) = 2
    /\ shls[man[m1].id].accessCount = 2

\* C17: on an active, unexpired link neither a failed geolocation lookup nor
\* the outcome of the access notification changes what the request does: after
\* the lookup, whatever it returned, the event is appended with the location
\* found (null when the lookup failed), then the accessCount is incremented
\* and the request goes on to sign and send the manifest.
C17_LookupFailureSwallowed ==
  [][\A m \in Manifests :
       /\ (man[m].pc = "geo" /\ man'[m] # man[m]) =>
            /\ man'[m].pc = "log"
            /\ man'[m].location \in getGeoLocation(man[m].clientIp)
            /\ UNCHANGED <<shls, auditLogs>>
       /\ (man[m].pc = "log" /\ man'[m] # man[m]) =>
            /\ man'[m].pc = "count"
            /\ Len(auditLogs') = Len(auditLogs) + 1
            /\ auditLogs'[Len(auditLogs')].eventType = "SHL_ACCESSED"
            /\ auditLogs'[Len(auditLogs')].accessorLocation = man[m].location
       /\ (man[m].pc = "count" /\ man'[m] # man[m]) =>
            /\ man'[m].pc = "sign"
            /\ shls'[man[m].id].accessCount = man[m].shl[1].accessCount + 1
       /\ (man[m].pc = "sign" /\ man'[m] # man[m]) =>
            /\ man'[m].pc = "done"
            /\ man'[m].resp \in
                 { ManifestResp(getBundleUrl(shls[man[m].id].bundleS3Key)),
                   ErrorResp(500, "Internal Server Error") }]_vars
\* A request whose lookup failed has been answered with the manifest, its
\* event on record with a null location.
C17_Witness ==
  \E m \in Manifests :
    /\ man[m].pc = "done" /\ man[m].resp.code = 200
    /\ \A k \in Manifests : k # m => man[k].pc = "idle"
    /\ \E k \in EventsOf(man[m].id, "SHL_ACCESSED") : auditLogs[k].accessorLocation = Null
    /\ shls[man[m].id].accessCount = 1

\* C18: a manifest request on an active, unexpired link that has reached the
\* geolocation lookup eventually sends its response, whether or not the
\* geolocation service ever answers.
C18_ManifestEventuallyResponds ==
  \A m \in Manifests : (man[m].pc = "geo") ~> (man[m].pc = "done")

\* C19: every 200 manifest response has exactly one file entry; its location
\* is the URL signed in the request's last step, at that step's time, for the
\* bundle key of the link's record; the step writes nothing to the record,
\* and the URL is not one of a document object.
C19_FreshBundleUrlOnly ==
  [][\A m \in Manifests :
       (man[m].pc # "done" /\ man'[m].pc = "done" /\ man'[m].resp.code = 200) =>
         LET row == shls[man[m].id]
             files == man'[m].resp.files
         IN  /\ Len(files) = 1
             /\ files[1].contentType = "application/fhir+json"
             /\ files[1].location = <<"signed", row.bundleS3Key, clock>>
             /\ row.bundleS3Key = <<"shls", man[m].id, <<"bundle">> >>
             /\ \A k \in 1..Len(row.documentS3Keys) :
                  files[1].location[2] # row.documentS3Keys[k]
             /\ shls' = shls]_vars
\* Two requests for one link have been answered at different times, each with
\* a URL of its own.
C19_Witness ==
  \E m1, m2 \in Manifests :
    /\ man[m1].pc = "done" /\ man[m1].resp.code = 200
    /\ man[m2].pc = "done" /\ man[m2].resp.code = 200
    /\ man[m1].id = man[m2].id
    /\ man[m1].resp.files[1].location # man[m2].resp.files[1].location

\* What PutObject stores beside the body for a file id: the content type and
\* the x-shl-* metadata.
ObjectMetadata(fileId) ==
  IF fileId = <<"bundle">>
    THEN [ContentType |-> "application/jose", type |-> "bundle"]
    ELSE [ContentType |-> "application/jose", type |-> "document"]
\* The value of a nullable column, if any.
Opt(x) == IF x = Null THEN {} ELSE {x[1]}
\* Every text value at rest: in the columns of the link records, in the
\* audit events and their details, in the object keys and metadata.
TextAtRest ==
  UNION {
    UNION { {id, shls[id].sessionId, shls[id].patientId, shls[id].providerId,
             shls[id].status, shls[id].bundleS3Key[1], shls[id].bundleS3Key[2]}
            \cup Opt(shls[id].patientPhone) \cup Opt(shls[id].patientEmail)
            \cup Opt(shls[id].revokedBy)
            \cup {shls[id].documentS3Keys[k][2] : k \in 1..Len(shls[id].documentS3Keys)}
            : id \in DOMAIN shls },
    UNION { {auditLogs[k].shlId, auditLogs[k].eventType}
            \cup Opt(auditLogs[k].providerId) \cup Opt(auditLogs[k].accessorRecipient)
            \cup Opt(auditLogs[k].accessorLocation)
            \cup (IF auditLogs[k].eventType = "SHL_CREATED" \/ auditLogs[k].details = Null
                    THEN {}
                    ELSE {auditLogs[k].details[1][f] : f \in DOMAIN auditLogs[k].details[1]})
            : k \in 1..Len(auditLogs) },
    UNION { {key[1], key[2], key[3][1], ObjectMetadata(key[3]).ContentType,
             ObjectMetadata(key[3]).type} : key \in s3 } }

\* C20: in every reachable state no column of a link record, no audit event
\* and no object key or metadata holds the key of any issuance; the creation
\* event's details are the document count and the window only, and the
\* storage-key columns hold storage keys, not a viewer URL or payload.
C20_KeyNeverAtRest ==
  /\ \A a \in Issues : generateShlKey(a) \notin TextAtRest
  /\ \A k \in 1..Len(auditLogs) :
       auditLogs[k].eventType = "SHL_CREATED" =>
         DOMAIN auditLogs[k].details[1] = {"documentCount", "expirationDays"}
  /\ \A id \in DOMAIN shls :
       /\ shls[id].bundleS3Key = <<"shls", id, <<"bundle">> >>
       /\ \A k \in 1..Len(shls[id].documentS3Keys) :
            shls[id].documentS3Keys[k] \in s3
  /\ \A key \in s3 : key[1] = "shls" /\ key[3][1] \in {"bundle", "doc"}
\* An issuance has replied 201: its record, events and objects are at rest
\* and the key has left in the viewer URL of the reply.
C20_Witness ==
  \E a \in Issues :
    /\ iss[a].pc = "done"
    /\ iss[a].resp.code = 201
    /\ iss[a].resp.viewerUrl[2].key = generateShlKey(a)
    /\ generateManifestId(a) \in DOMAIN shls
    /\ EventsOf(generateManifestId(a), "SHL_CREATED") # {}
    /\ EventsOf(generateManifestId(a), "SHL_DELIVERED_EMAIL") # {}
    /\ ArtifactsOf(a) # {}

\* The delivery events of link id for one channel in a log: the events whose
\* details name that channel's contact.
DeliveryTypes == {"SHL_DELIVERED_SMS", "SHL_DELIVERED_EMAIL", "SHL_DELIVERY_FAILED"}
DeliveryEventsIn(log, id, channel) ==
  {k \in 1..Len(log) :
     /\ log[k].shlId = id
     /\ log[k].eventType \in DeliveryTypes
     /\ channel \in DOMAIN log[k].details[1]}
\* The type of the event that records a channel's outcome.
DeliveryTypeFor(delivered, status) ==
  IF status = "sent" THEN delivered ELSE "SHL_DELIVERY_FAILED"

\* C21: once the link is committed, sendDeliveryNotification never fails the
\* issuance, whatever the sends did: the request goes on to the delivery
\* events with the link untouched.  At no time is there more than one
\* delivery event per channel of a link, or any for a channel the link has
\* no contact for; and when the request replies 201, the reply carries the
\* link id, the link is 'active', and each channel supplied has exactly one
\* event, typed SHL_DELIVERED_SMS / SHL_DELIVERED_EMAIL when its send
\* succeeded and SHL_DELIVERY_FAILED when it failed.
C21_DeliveryEventPerChannel ==
  [][\A a \in Issues :
       LET id == generateManifestId(a) IN
       /\ (iss[a].pc = "deliver" /\ iss'[a] # iss[a]) =>
            /\ iss'[a].pc \in {"logsms", "logemail"}
            /\ iss'[a].deliveryStatus[1].sms \in
                 (IF iss[a].phone # Null THEN {"sent", "failed"} ELSE {"skipped"})
            /\ iss'[a].deliveryStatus[1].email \in
                 (IF iss[a].email # Null THEN {"sent", "failed"} ELSE {"skipped"})
            /\ UNCHANGED <<shls, auditLogs>>
       /\ IF id \in DOMAIN shls'
            THEN /\ Cardinality(DeliveryEventsIn(auditLogs', id, "phone")) <=
                      (IF shls'[id].patientPhone # Null THEN 1 ELSE 0)
                 /\ Cardinality(DeliveryEventsIn(auditLogs', id, "email")) <=
                      (IF shls'[id].patientEmail # Null THEN 1 ELSE 0)
            ELSE /\ DeliveryEventsIn(auditLogs', id, "phone") = {}
                 /\ DeliveryEventsIn(auditLogs', id, "email") = {}
       /\ (iss[a].pc # "done" /\ iss'[a].pc = "done" /\ iss'[a].resp.code = 201) =>
            /\ iss'[a].resp.id = id
            /\ id \in DOMAIN shls'
            /\ shls'[id].status = "active"
            /\ iss'[a].resp.deliveryStatus = iss[a].deliveryStatus[1]
            /\ LET log == auditLogs'
                   sms == DeliveryEventsIn(log, id, "phone")
                   email == DeliveryEventsIn(log, id, "email")
               IN  /\ Cardinality(sms) = (IF shls'[id].patientPhone # Null THEN 1 ELSE 0)
                   /\ Cardinality(email) = (IF shls'[id].patientEmail # Null THEN 1 ELSE 0)
                   /\ \A k \in sms :
                        /\ log[k].eventType =
                             DeliveryTypeFor("SHL_DELIVERED_SMS",
                                             iss[a].deliveryStatus[1].sms)
                        /\ log[k].details[1].status = iss[a].deliveryStatus[1].sms
                   /\ \A k \in email :
                        /\ log[k].eventType =
                             DeliveryTypeFor("SHL_DELIVERED_EMAIL",
                                             iss[a].deliveryStatus[1].email)
                        /\ log[k].details[1].status = iss[a].deliveryStatus[1].email]_vars
\* An issuance with both channels has replied 201 although its SMS failed:
\* the link is active, with one failure event for the phone and one
\* delivered event for the e-mail.
C21_Witness ==
  \E a \in Issues :
    LET id == generateManifestId(a) IN
    /\ iss[a].pc = "done"
    /\ iss[a].resp.code = 201
    /\ iss[a].resp.deliveryStatus = [sms |-> "failed", email |-> "sent"]
    /\ id \in DOMAIN shls
    /\ shls[id].status = "active"
    /\ \E k \in DeliveryEventsIn(auditLogs, id, "phone") :
         auditLogs[k].eventType = "SHL_DELIVERY_FAILED"
    /\ \E k \in DeliveryEventsIn(auditLogs, id, "email") :
         auditLogs[k].eventType = "SHL_DELIVERED_EMAIL"

\* C22: for every content, content type and key of SHL_KEY_BYTES bytes,
\* decrypting what encryptContent returned, with the same key, returns the
\* same content and the same content type.
C22_RoundTrip ==
  ( /\ crypto.pc = "decrypted"
    /\ Len(crypto.key) = SHL_KEY_BYTES
    /\ crypto.otherKey = crypto.key ) =>
      crypto.decrypted =
        Some(Returned([content |-> crypto.content, contentType |-> crypto.contentType]))
\* Two bytes, the greatest value among them, were sealed to a ciphertext
\* that differs from them and opened again under a content type of their own.
C22_Witness ==
  /\ crypto.pc = "decrypted"
  /\ crypto.otherKey = crypto.key
  /\ crypto.key = KeyC
  /\ Len(crypto.content) = 2 /\ crypto.content[2] = 255
  /\ crypto.contentType = "application/pdf"
  /\ crypto.jwe[1].value[1][4] # Base64UrlEncode(crypto.content)
  /\ crypto.decrypted[1].ok
  /\ crypto.decrypted[1].value[1].content = crypto.content

\* C23: for every content, content type and two distinct keys of
\* SHL_KEY_BYTES bytes, decrypting with the second key what encryptContent
\* returned for the first throws and returns nothing, no plaintext bytes
\* either.
C23_WrongKeyFails ==
  ( /\ crypto.pc = "decrypted"
    /\ Len(crypto.key) = SHL_KEY_BYTES
    /\ Len(crypto.otherKey) = SHL_KEY_BYTES
    /\ crypto.otherKey # crypto.key ) =>
      /\ ~crypto.decrypted[1].ok
      /\ crypto.decrypted[1].value = Null
      /\ crypto.decrypted[1].error[1].name = "JWEDecryptionFailed"
\* Content sealed with KeyA was refused to a key that differs from KeyA in
\* its last byte only.
C23_Witness ==
  /\ crypto.pc = "decrypted"
  /\ crypto.key = KeyA
  /\ crypto.otherKey = KeyB
  /\ Len(crypto.content) = 2
  /\ ~crypto.decrypted[1].ok
  /\ crypto.decrypted[1].value = Null

\* C24: encryptContent, decryptContent and decodeKey each throw 'Invalid key
\* size' for a key whose length is not SHL_KEY_BYTES, and return no envelope,
\* no plaintext and no key; a key of SHL_KEY_BYTES bytes is not refused for
\* its size.
C24_KeySizeChecked ==
  /\ crypto.pc = "encrypted" =>
       IF Len(crypto.key) # SHL_KEY_BYTES
         THEN crypto.jwe = Some(InvalidKeySize)
         ELSE crypto.jwe[1].ok
  /\ crypto.pc = "decrypted" =>
       IF Len(crypto.otherKey) # SHL_KEY_BYTES
         THEN crypto.decrypted = Some(InvalidKeySize)
         ELSE crypto.decrypted[1] # InvalidKeySize
  /\ crypto.pc = "decoded" =>
       IF Len(crypto.key) # SHL_KEY_BYTES
         THEN crypto.decoded = Some(InvalidKeySize)
         ELSE crypto.decoded = Some(Returned(crypto.key))
  /\ InvalidKeySize.value = Null
\* An envelope sealed with a good key was refused to a key one byte short.
C24_Witness ==
  /\ crypto.pc = "decrypted"
  /\ Len(crypto.key) = SHL_KEY_BYTES
  /\ Len(crypto.otherKey) = SHL_KEY_BYTES - 1
  /\ crypto.jwe[1].ok
  /\ crypto.decrypted = Some(InvalidKeySize)

\* View request v replies in this step with a 200.
ViewReplies(v, kind) ==
  /\ view[v].pc # "done" /\ view'[v].pc = "done"
  /\ view'[v].kind = kind /\ view'[v].code = 200

\* C25: the list view reports, for each of the patient's links, and the
\* details view for the link it read, the status 'expired' when the stored
\* status is 'active' and expiresAt is before the time of the reply, and the
\* stored status otherwise, so that 'revoked' (and 'expired') show as stored;
\* no step of either view changes a link record or the audit log.
C25_ViewsApplyExpiry ==
  [][\A v \in Views :
       /\ ViewReplies(v, "list") =>
            LET results == view'[v].body[1] IN
            /\ DOMAIN results =
                 {id \in DOMAIN shls :
                    shls[id].patientId = sessions[view'[v].cookie].patientId}
            /\ \A id \in DOMAIN results :
                 results[id].status =
                   IF shls[id].status = "active" /\ shls[id].expiresAt < clock
                     THEN "expired" ELSE shls[id].status
       /\ ViewReplies(v, "details") =>
            LET read == view[v].shl[1]
                reply == view'[v].body[1] IN
            /\ view[v].pc = "logs"
            /\ reply.status =
                 IF read.status = "active" /\ read.expiresAt < clock
                   THEN "expired" ELSE read.status
            /\ read.status = "revoked" => reply.status = "revoked"
       /\ (view[v].pc = "idle" /\ view'[v].pc = "logs") =>
            view'[v].shl = Some(shls[view'[v].id])
       /\ view'[v] # view[v] => UNCHANGED <<shls, auditLogs, s3>>]_vars
\* The list has shown as 'expired' a link still stored 'active', and later
\* the details have shown the same link, revoked by then and past its
\* expiration, as 'revoked'.
C25_Witness ==
  \E v1, v2 \in Views :
    /\ view[v1].pc = "done" /\ view[v1].kind = "list" /\ view[v1].code = 200
    /\ LinkId \in DOMAIN view[v1].body[1]
    /\ view[v1].body[1][LinkId].status = "expired"
    /\ view[v2].pc = "done" /\ view[v2].kind = "details" /\ view[v2].code = 200
    /\ view[v2].body[1].status = "revoked"
    /\ shls[LinkId].status = "revoked"
    /\ shls[LinkId].expiresAt < clock
    /\ rev[1].readStatus = "active"

\* Manifest request m is on, or in this step takes, the path of a refused
\* request: it replies 404 or 410, or it goes to the lazy-expiry write.
ManRefusedStep(m) ==
  /\ man'[m] # man[m]
  /\ \/ man'[m].pc = "expire"
     \/ man'[m].pc = "done" /\ man'[m].resp.code \in {404, 410}

\* C26: every step of a manifest request that is refused with 404 or 410
\* comes straight from the select or from the lazy-expiry write: the request
\* never reached the lookup, the event, the count or the signing; the step
\* appends nothing to the audit log, starts no access notification, puts no
\* file in the reply, and changes no column of any link record except that
\* the lazy-expiry write sets the status of the link asked for to 'expired'.
C26_RefusedRequestOnlyExpires ==
  [][\A m \in Manifests :
       ManRefusedStep(m) =>
         /\ man[m].pc \in {"idle", "expire"}
         /\ auditLogs' = auditLogs
         /\ ~man'[m].notified
         /\ man'[m].resp.files = << >>
         /\ man'[m].shl = Null
         /\ DOMAIN shls' = DOMAIN shls
         /\ \A id \in DOMAIN shls :
              /\ shls'[id] = [shls[id] EXCEPT !.status = shls'[id].status]
              /\ shls'[id].status # shls[id].status =>
                   /\ shls'[id].status = "expired"
                   /\ man[m].pc = "expire"
                   /\ id = man[m].id
                   /\ man'[m].resp = Expired410]_vars
\* A link accessed once before it expired has since refused a request as
\* expired: the status is 'expired' and the one access is all that is on
\* record.
C26_Witness ==
  \E m \in Manifests :
    /\ man[m].pc = "done" /\ man[m].resp = Expired410 /\ ~man[m].notified
    /\ shls[man[m].id].status = "expired"
    /\ shls[man[m].id].accessCount = 1
    /\ shls[man[m].id].lastAccessedAt = Some(1)
    /\ Cardinality(EventsOf(man[m].id, "SHL_ACCESSED")) = 1

\* Revoke request r starts in this step.
RevStarts(r) == rev[r].pc = "idle" /\ rev'[r].pc # "idle"
\* The cookie names no session row, or one that has expired.
NoLiveSession(cookie) ==
  \/ cookie = NoCookie
  \/ cookie \notin DOMAIN sessions
  \/ sessions[cookie].expiresAt < clock

\* C27: a revoke request without a live session replies 401, and one whose
\* session's patient is not the patient of the link it names (or that names
\* no link) replies 404; either way the request ends in that step, with
\* every link record and the audit log as they were, and a request that has
\* replied takes no further step.
C27_ForeignRevokeChangesNothing ==
  [][\A r \in Revokes :
       /\ RevStarts(r) =>
            LET cookie == rev'[r].cookie
                id == rev'[r].id
            IN  IF NoLiveSession(cookie)
                  THEN /\ rev'[r].pc = "done"
                       /\ rev'[r].resp.code = 401
                       /\ shls' = shls
                       /\ auditLogs' = auditLogs
                ELSE IF \/ id \notin DOMAIN shls
                        \/ shls[id].patientId # sessions[cookie].patientId
                  THEN /\ rev'[r].pc = "done"
                       /\ rev'[r].resp = ErrorResp(404, "Health link not found")
                       /\ shls' = shls
                       /\ auditLogs' = auditLogs
                ELSE rev'[r].resp.code \notin {401, 404}
       /\ rev[r].pc = "done" => rev'[r] = rev[r]]_vars
\* The link's patient is "patA": a request under another patient's session
\* was answered 404 and one under an expired session of "patA" 401, and the
\* link is active, unrevoked, with no revocation on record.
C27_Witness ==
  \E r1, r2 \in Revokes :
    /\ rev[r1].pc = "done" /\ rev[r1].cookie = "sesB" /\ rev[r1].id = LinkId
    /\ rev[r1].resp.code = 404
    /\ rev[r2].pc = "done" /\ rev[r2].cookie = "sesOld" /\ rev[r2].resp.code = 401
    /\ shls[LinkId].patientId = "patA"
    /\ shls[LinkId].status = "active"
    /\ shls[LinkId].revokedAt = Null /\ shls[LinkId].revokedBy = Null
    /\ EventsOf(LinkId, "SHL_REVOKED") = {}

\* C28: no step of any request lowers a link's persisted accessCount: every
\* write stores a value at least as great as the one it replaces.
C28_AccessCountNeverDecreases ==
  [][\A id \in DOMAIN shls : shls'[id].accessCount >= shls[id].accessCount]_vars

\* C29: from the step in which a revoke request has written 'revoked' to a
\* link, no step appends a SHL_ACCESSED event for the link, raises its
\* accessCount, or answers a manifest request for it with a manifest.
C29_NoAccessAfterRevoke ==
  [][\A id \in DOMAIN shls :
       HasBeenRevoked(shls[id]) =>
         /\ EventsIn(auditLogs', id, "SHL_ACCESSED") = EventsIn(auditLogs, id, "SHL_ACCESSED")
         /\ shls'[id].accessCount <= shls[id].accessCount
         /\ \A m \in Manifests :
              (man[m].id = id /\ man[m].pc # "done" /\ man'[m].pc = "done") =>
                man'[m].resp.code # 200]_vars

\* C30: for every link at most one SHL_REVOKED event is on record and at
\* most one revoke request has replied success, and once revokedAt and
\* revokedBy are written no step writes them again.
C30_RevokedOnce ==
  [][\A id \in DOMAIN shls :
       /\ Cardinality(EventsIn(auditLogs', id, "SHL_REVOKED")) <= 1
       /\ Cardinality({r \in Revokes : rev'[r].pc = "done" /\ rev'[r].id = id
                                       /\ rev'[r].resp = OkResp(200)}) <= 1
       /\ shls[id].revokedAt # Null =>
            \A r \in Revokes :
              (rev[r].pc = "update" /\ rev'[r].pc # "update") => shls' = shls]_vars

====
